---- MODULE Spec2Model ----
(***************************************************************************)
(* Sleep & Health Lifestyle Dashboard (src/app.py).                        *)
(*                                                                         *)
(* The script is re-executed top to bottom on every interaction.  One      *)
(* execution is the action Run: the memoized load_data(), the three        *)
(* sidebar widgets, the boolean-mask filter and the derived outputs.       *)
(* The CSV on disk is the environment; ChangeSource replaces it between    *)
(* runs.                                                                   *)
(*                                                                         *)
(* Strings that the code inspects character by character (column names)    *)
(* are sequences of one-character strings.  A cell of the table is a pair  *)
(* <<"str", s>> or <<"num", n>>.  Ages are held in units of 1/AgeScale     *)
(* year, so that int() at src/app.py:43 is a truncation and not the        *)
(* identity.  Row positions are 1-based where pandas' RangeIndex is        *)
(* 0-based.                                                                *)
(***************************************************************************)
EXTENDS Integers, Sequences, FiniteSets, TLC

VARIABLES
    file,                   \* sleep_health.csv on disk
    cache,                  \* the entry st.cache_data keeps for load_data()
    reads,                  \* number of pd.read_csv attempts so far
    changed,                \* the file has been replaced since the last run
    df,                     \* df of the last run
    selected_gender,        \* value of the gender multiselect
    age_range,              \* value of the age slider, <<lo, hi>> in years
    selected_bmi_category,  \* value of the BMI multiselect
    filtered_df,            \* filtered_df of the last run
    out,                    \* what the last run handed to the page
    firstFilter             \* inputs and result of the first filter step, and
                            \* whether another FilterSpec has been applied since

vars == <<file, cache, reads, changed, df, selected_gender, age_range,
          selected_bmi_category, filtered_df, out, firstFilter>>

----------------------------------------------------------------------------
(* Bounds of the model *)

MaxRows == 2        \* rows of a table whose gender/age/BMI cells vary
MaxGroupRows == 3   \* rows of a table whose occupation/quality cells vary
AgeScale == 2       \* an age is a multiple of 1/AgeScale year
MaxCols == 2        \* columns of a file with arbitrary header names
MaxNameLen == 2     \* characters of an arbitrary header name

(* Program constants *)

HeadRows == 5       \* DataFrame.head() default, src/app.py:63
NBins == 10         \* nbins of the histogram, src/app.py:74

----------------------------------------------------------------------------
(* Column names *)

Raw_Gender == <<"G", "e", "n", "d", "e", "r">>
Raw_Age == <<"A", "g", "e">>
Raw_Occupation == <<"O", "c", "c", "u", "p", "a", "t", "i", "o", "n">>
Raw_Sleep_Duration == <<"S", "l", "e", "e", "p", " ", "D", "u", "r", "a", "t", "i", "o", "n">>
Raw_Quality_of_Sleep == <<"Q", "u", "a", "l", "i", "t", "y", " ", "o", "f", " ", "S", "l", "e", "e", "p">>
Raw_Physical_Activity_Level == <<"P", "h", "y", "s", "i", "c", "a", "l", " ", "A", "c", "t", "i", "v", "i", "t", "y", " ", "L", "e", "v", "e", "l">>
Raw_Stress_Level == <<"S", "t", "r", "e", "s", "s", " ", "L", "e", "v", "e", "l">>
Raw_BMI_Category == <<"B", "M", "I", " ", "C", "a", "t", "e", "g", "o", "r", "y">>
Raw_Daily_Steps == <<"D", "a", "i", "l", "y", " ", "S", "t", "e", "p", "s">>

gender == <<"g", "e", "n", "d", "e", "r">>
age == <<"a", "g", "e">>
occupation == <<"o", "c", "c", "u", "p", "a", "t", "i", "o", "n">>
sleep_duration == <<"s", "l", "e", "e", "p", "_", "d", "u", "r", "a", "t", "i", "o", "n">>
quality_of_sleep == <<"q", "u", "a", "l", "i", "t", "y", "_", "o", "f", "_", "s", "l", "e", "e", "p">>
physical_activity_level == <<"p", "h", "y", "s", "i", "c", "a", "l", "_", "a", "c", "t", "i", "v", "i", "t", "y", "_", "l", "e", "v", "e", "l">>
stress_level == <<"s", "t", "r", "e", "s", "s", "_", "l", "e", "v", "e", "l">>
bmi_category == <<"b", "m", "i", "_", "c", "a", "t", "e", "g", "o", "r", "y">>
daily_steps == <<"d", "a", "i", "l", "y", "_", "s", "t", "e", "p", "s">>

UpperCase == <<"A", "B", "C", "D", "E", "F", "G", "H", "I", "J", "K", "L", "M",
               "N", "O", "P", "Q", "R", "S", "T", "U", "V", "W", "X", "Y", "Z">>
LowerCase == <<"a", "b", "c", "d", "e", "f", "g", "h", "i", "j", "k", "l", "m",
               "n", "o", "p", "q", "r", "s", "t", "u", "v", "w", "x", "y", "z">>

UpperLetters == {UpperCase[i] : i \in DOMAIN UpperCase}
ToLower == [c \in UpperLetters |-> LowerCase[CHOOSE k \in DOMAIN UpperCase : UpperCase[k] = c]]

IsUpper(c) == c \in UpperLetters

\* .str.replace(' ', '_') on one name
str_replace(name) ==
    [i \in DOMAIN name |-> IF name[i] = " " THEN "_" ELSE name[i]]

\* .str.lower() on one name
str_lower(name) ==
    [i \in DOMAIN name |->
        IF IsUpper(name[i]) THEN ToLower[name[i]] ELSE name[i]]

\* A plausible slip: the names are lowercased, the spaces are kept.
NormalizeColumns_LowerOnly(header) ==
    [i \in DOMAIN header |-> str_lower(header[i])]

\* df.columns.str.replace(' ', '_').str.lower()
NormalizeColumns(header) ==
    [i \in DOMAIN header |-> str_lower(str_replace(header[i]))]

----------------------------------------------------------------------------
(* Tables *)

Str(s) == <<"str", s>>
Num(n) == <<"num", n>>
Val(cell) == cell[2]

EmptyDataFrame == [columns |-> <<>>, rows |-> <<>>]     \* pd.DataFrame()
NoFile == [exists |-> FALSE, header |-> <<>>, rows |-> <<>>]

HasCol(d, name) == \E i \in DOMAIN d.columns : d.columns[i] = name
ColIdx(d, name) == CHOOSE i \in DOMAIN d.columns : d.columns[i] = name
Cell(d, cells, name) == Val(cells[ColIdx(d, name)])

\* DataFrame.empty: either axis has length 0
IsEmpty(d) == Len(d.columns) = 0 \/ Len(d.rows) = 0

Range(s) == {s[i] : i \in DOMAIN s}


RECURSIVE Unique(_)
\* Series.unique().tolist(): the distinct values in order of first appearance
Unique(s) ==
    IF s = <<>> THEN <<>>
    ELSE LET rest == Unique(SubSeq(s, 1, Len(s) - 1))
             last == s[Len(s)]
         IN IF last \in Range(rest) THEN rest ELSE Append(rest, last)

Column(d, name) == [i \in DOMAIN d.rows |-> Cell(d, d.rows[i], name)]

SeqMin(s) == CHOOSE m \in Range(s) : \A x \in Range(s) : m <= x
SeqMax(s) == CHOOSE m \in Range(s) : \A x \in Range(s) : m >= x

\* int() of an age held in 1/AgeScale year: truncation toward zero
int(x) == IF x >= 0 THEN x \div AgeScale ELSE -((-x) \div AgeScale)

----------------------------------------------------------------------------
(* Loader *)

DiagFileNotFound == "Error: 'sleep_health.csv' not found."
DiagNoMatch == "No data matches the selected filters."
DiagFig3Columns == "Columns 'occupation' or 'quality_of_sleep' not found for this visualization."
DiagFig4Columns == "Columns 'physical_activity_level' or 'bmi_category' not found for this visualization."

\* A plausible slip: the missing file is not caught.
load_data_Raises(f) ==
    IF f.exists
    THEN [df |-> [columns |-> NormalizeColumns(f.header), rows |-> f.rows],
          diag |-> {}, raised |-> FALSE]
    ELSE [df |-> EmptyDataFrame, diag |-> {}, raised |-> TRUE]

\* The body of load_data(): read, normalize the header, or report and return
\* an empty DataFrame when the file is not there.
load_data(f) ==
    IF f.exists
    THEN [df |-> [columns |-> NormalizeColumns(f.header), rows |-> f.rows],
          diag |-> {}, raised |-> FALSE]
    ELSE [df |-> EmptyDataFrame, diag |-> {DiagFileNotFound}, raised |-> FALSE]

NoCache == [hit |-> FALSE, value |-> [df |-> EmptyDataFrame, diag |-> {}, raised |-> FALSE]]

\* @st.cache_data: the entry is keyed by the function and its (no) arguments;
\* a hit returns the stored value and replays the stored st.error element.
cached_load_data(c, f) == IF c.hit THEN c.value ELSE load_data(f)

----------------------------------------------------------------------------
(* Sidebar widgets *)

gender_options(d) == Unique(Column(d, gender))
min_age(d) == int(SeqMin(Column(d, age)))
max_age(d) == int(SeqMax(Column(d, age)))
bmi_category_options(d) == Unique(Column(d, bmi_category))

\* st.sidebar.multiselect: any sub-selection of the options
MultiselectValues(options) == SUBSET Range(options)

\* st.sidebar.slider with a tuple value: lo <= hi within [min_value, max_value]
SliderValues(lo, hi) == {<<a, b>> \in (lo..hi) \X (lo..hi) : a <= b}

\* default=gender_options, (min_age, max_age), default=bmi_category_options
DefaultFilterSpec(d) ==
    <<Range(gender_options(d)), <<min_age(d), max_age(d)>>, Range(bmi_category_options(d))>>

\* What the three widgets return.  Without widgets in the previous run they
\* are new and return their defaults.  Otherwise they keep their values (cur)
\* but for the one widget, if any, whose change by the user started this run.
WidgetValues(d, hadWidgets, cur) ==
    IF ~hadWidgets THEN {DefaultFilterSpec(d)}
    ELSE {<<sg, cur[2], cur[3]>> : sg \in MultiselectValues(gender_options(d))}
         \cup {<<cur[1], ar, cur[3]>> : ar \in SliderValues(min_age(d), max_age(d))}
         \cup {<<cur[1], cur[2], sb>> : sb \in MultiselectValues(bmi_category_options(d))}

HasFilterColumns(d) ==
    HasCol(d, gender) /\ HasCol(d, age) /\ HasCol(d, bmi_category)

----------------------------------------------------------------------------
(* Filter *)

Indexed(d) == [i \in DOMAIN d.rows |-> [index |-> i, cells |-> d.rows[i]]]

\* A plausible slip: the upper bound of the age interval is exclusive.
ApplyFilters_ExclusiveMax(d, sg, ar, sb) ==
    LET Keep(r) == /\ Cell(d, r.cells, gender) \in sg
                   /\ Cell(d, r.cells, age) >= ar[1] * AgeScale
                   /\ Cell(d, r.cells, age) < ar[2] * AgeScale
                   /\ Cell(d, r.cells, bmi_category) \in sb
    IN SelectSeq(Indexed(d), Keep)

\* A plausible slip: the selected rows come out in reverse order.
ApplyFilters_Reversed(d, sg, ar, sb) ==
    LET Keep(r) == /\ Cell(d, r.cells, gender) \in sg
                   /\ Cell(d, r.cells, age) >= ar[1] * AgeScale
                   /\ Cell(d, r.cells, age) <= ar[2] * AgeScale
                   /\ Cell(d, r.cells, bmi_category) \in sb
        kept == SelectSeq(Indexed(d), Keep)
    IN [i \in DOMAIN kept |-> kept[Len(kept) + 1 - i]]

\* A plausible slip: the mask is applied to the previous run's filtered_df
\* (state kept between runs) instead of df.
ApplyFilters_Sticky(d, sg, ar, sb) ==
    LET Keep(r) == /\ Cell(d, r.cells, gender) \in sg
                   /\ Cell(d, r.cells, age) >= ar[1] * AgeScale
                   /\ Cell(d, r.cells, age) <= ar[2] * AgeScale
                   /\ Cell(d, r.cells, bmi_category) \in sb
    IN SelectSeq(IF filtered_df # <<>> /\ df = d THEN filtered_df ELSE Indexed(d), Keep)

\* df[ gender.isin(..) & (age >= lo) & (age <= hi) & bmi_category.isin(..) ]:
\* the rows whose mask is True, with their index labels, in table order.
ApplyFilters(d, sg, ar, sb) ==
    LET Keep(r) == /\ Cell(d, r.cells, gender) \in sg
                   /\ Cell(d, r.cells, age) >= ar[1] * AgeScale
                   /\ Cell(d, r.cells, age) <= ar[2] * AgeScale
                   /\ Cell(d, r.cells, bmi_category) \in sb
    IN SelectSeq(Indexed(d), Keep)

----------------------------------------------------------------------------
(* Derived outputs *)

Min(a, b) == IF a <= b THEN a ELSE b

RECURSIVE SumSeq(_)
SumSeq(s) == IF s = <<>> THEN 0 ELSE Head(s) + SumSeq(Tail(s))

\* the quality_of_sleep values of the rows of fd whose occupation is k
GroupValues(d, fd, k) ==
    LET InGroup(r) == Cell(d, r.cells, occupation) = k
        rows == SelectSeq(fd, InGroup)
    IN [i \in DOMAIN rows |-> Cell(d, rows[i].cells, quality_of_sleep)]

\* .mean() of one group, kept as the exact fraction num/den
mean(vals) == [num |-> SumSeq(vals), den |-> Len(vals)]
MeanGE(a, b) == a.num * b.den >= b.num * a.den

\* groupby('occupation')['quality_of_sleep'].mean(): one entry per key
GroupMeans(d, fd) ==
    {[occupation |-> k, quality_of_sleep |-> mean(GroupValues(d, fd, k))] :
        k \in {Cell(d, fd[i].cells, occupation) : i \in DOMAIN fd}}

Orders(S) ==
    {g \in [1..Cardinality(S) -> S] : \A i, j \in 1..Cardinality(S) : i # j => g[i] # g[j]}

\* A plausible slip: ascending=False is left out.
avg_sleep_quality_by_occupation_Ascending(d, fd) ==
    {g \in Orders(GroupMeans(d, fd)) :
        \A i, j \in DOMAIN g :
            i < j => MeanGE(g[j].quality_of_sleep, g[i].quality_of_sleep)}

\* ....mean().sort_values(ascending=False).reset_index(): the tables the
\* sort may return; the order among equal means is whatever the sort leaves.
avg_sleep_quality_by_occupation(d, fd) ==
    {g \in Orders(GroupMeans(d, fd)) :
        \A i, j \in DOMAIN g :
            i < j => MeanGE(g[i].quality_of_sleep, g[j].quality_of_sleep)}

\* filtered_df.describe(), as far as the model goes: count, min and max of age
describe(d, fd) ==
    IF fd = <<>> THEN [count |-> 0, age_min |-> 0, age_max |-> 0]
    ELSE LET ages == [i \in DOMAIN fd |-> Cell(d, fd[i].cells, age)]
         IN [count |-> Len(fd), age_min |-> SeqMin(ages), age_max |-> SeqMax(ages)]

NoHistogram == [x |-> <<>>, nbins |-> 0]

NoOutput ==
    [status |-> "not_run", exception |-> "none", diag |-> {}, widgets |-> FALSE,
     produced |-> {}, preview |-> <<>>, count |-> <<0, 0>>,
     describe |-> describe(EmptyDataFrame, <<>>), fig1 |-> NoHistogram, fig3 |-> <<>>]

Fig1Columns(d) == HasCol(d, sleep_duration)
Fig2Columns(d) ==
    /\ HasCol(d, sleep_duration) /\ HasCol(d, stress_level) /\ HasCol(d, gender)
    /\ HasCol(d, daily_steps) /\ HasCol(d, occupation)
Fig3Columns(d) == HasCol(d, occupation) /\ HasCol(d, quality_of_sleep)
Fig4Columns(d) == HasCol(d, physical_activity_level) /\ HasCol(d, bmi_category)

\* the run gets as far as line 93
Fig3Reached(d, fd) ==
    fd # <<>> /\ Fig1Columns(d) /\ Fig2Columns(d) /\ Fig3Columns(d)

Fig3Choices(d, fd) ==
    IF Fig3Reached(d, fd) THEN avg_sleep_quality_by_occupation(d, fd) ELSE {<<>>}

\* What lines 61-122 hand to the page for a filtered_df; px.histogram and
\* px.scatter raise ValueError on a column that is not there, which ends the run.
Charts(d, fd, diag0, g) ==
    LET c1 == Fig1Columns(d)
        c2 == c1 /\ Fig2Columns(d)
        c3 == c2 /\ Fig3Columns(d)
        c4 == c2 /\ Fig4Columns(d)
    IN [status    |-> IF c2 THEN "rendered" ELSE "crashed",
        exception |-> IF c2 THEN "none" ELSE "ValueError",
        diag      |-> diag0 \cup (IF c2 /\ ~c3 THEN {DiagFig3Columns} ELSE {})
                            \cup (IF c2 /\ ~c4 THEN {DiagFig4Columns} ELSE {}),
        widgets   |-> TRUE,
        produced  |-> {"preview", "count", "describe"}
                        \cup (IF c1 THEN {"fig1"} ELSE {})
                        \cup (IF c2 THEN {"fig2", "insights"} ELSE {})
                        \cup (IF c3 THEN {"fig3"} ELSE {})
                        \cup (IF c4 THEN {"fig4"} ELSE {}),
        preview   |-> SubSeq(fd, 1, Min(HeadRows, Len(fd))),
        count     |-> <<Len(fd), Len(d.rows)>>,
        describe  |-> describe(d, fd),
        fig1      |-> IF c1 THEN [x |-> [i \in DOMAIN fd |-> Cell(d, fd[i].cells, sleep_duration)],
                                  nbins |-> NBins]
                      ELSE NoHistogram,
        fig3      |-> IF c3 THEN g ELSE <<>>]

\* A plausible slip: the emptiness test of line 58 is left out.
Render_NoEmptyCheck(d, fd, diag0, g) == Charts(d, fd, diag0, g)

\* Lines 58-122: the warning for an empty filtered_df, the outputs otherwise.
Render(d, fd, diag0, g) ==
    IF fd = <<>>
    THEN [NoOutput EXCEPT !.status = "no_match", !.widgets = TRUE,
                          !.diag = diag0 \cup {DiagNoMatch}]
    ELSE Charts(d, fd, diag0, g)

----------------------------------------------------------------------------
(* The CSV files the model reads *)

FullHeader ==
    <<Raw_Gender, Raw_Age, Raw_Occupation, Raw_Sleep_Duration, Raw_Quality_of_Sleep,
      Raw_Physical_Activity_Level, Raw_Stress_Level, Raw_BMI_Category, Raw_Daily_Steps>>

DefaultCell(raw) ==
    CASE raw = Raw_Gender -> Str("Male")
      [] raw = Raw_Age -> Num(30 * AgeScale)
      [] raw = Raw_Occupation -> Str("Nurse")
      [] raw = Raw_Sleep_Duration -> Num(7)
      [] raw = Raw_Quality_of_Sleep -> Num(6)
      [] raw = Raw_Physical_Activity_Level -> Num(60)
      [] raw = Raw_Stress_Level -> Num(5)
      [] raw = Raw_BMI_Category -> Str("Normal")
      [] raw = Raw_Daily_Steps -> Num(8000)
      [] OTHER -> Str("x")

\* the cells a column takes in the files of one family
Cells(family, raw) ==
    CASE family = "filter" /\ raw = Raw_Gender -> {Str("Male"), Str("Female")}
      [] family = "filter" /\ raw = Raw_Age ->
            {Num(30 * AgeScale), Num(31 * AgeScale), Num(31 * AgeScale + 1)}
      [] family = "filter" /\ raw = Raw_BMI_Category -> {Str("Normal"), Str("Overweight")}
      [] family = "group" /\ raw = Raw_Occupation -> {Str("Nurse"), Str("Doctor")}
      [] family = "group" /\ raw = Raw_Quality_of_Sleep -> {Num(4), Num(9)}
      [] OTHER -> {DefaultCell(raw)}

RECURSIVE RowsOf(_, _)
RowsOf(header, family) ==
    IF header = <<>> THEN {<<>>}
    ELSE {<<c>> \o r : c \in Cells(family, Head(header)), r \in RowsOf(Tail(header), family)}

FilesOf(header, family, n) ==
    {[exists |-> TRUE, header |-> header, rows |-> t] :
        t \in UNION {[1..k -> RowsOf(header, family)] : k \in 0..n}}

DropOne(h, i) == SubSeq(h, 1, i - 1) \o SubSeq(h, i + 1, Len(h))

\* the full header, or the full header less one column; at most one row
SchemaFiles ==
    UNION {FilesOf(h, "default", 1) :
             h \in {FullHeader} \cup {DropOne(FullHeader, i) : i \in DOMAIN FullHeader}}

\* the full header; gender, age and BMI category vary
FilterFiles == FilesOf(FullHeader, "filter", MaxRows)

\* the full header; occupation and quality of sleep vary
GroupFiles == FilesOf(FullHeader, "group", MaxGroupRows)

\* arbitrary distinct header names over a small alphabet; one row
Alphabet == {"A", " "}
Names == UNION {[1..n -> Alphabet] : n \in 1..MaxNameLen}
Headers ==
    UNION {{h \in [1..n -> Names] : \A i, j \in 1..n : i # j => h[i] # h[j]} :
             n \in 1..MaxCols}
HeaderFiles ==
    {[exists |-> TRUE, header |-> h, rows |-> <<[i \in DOMAIN h |-> DefaultCell(h[i])]>>] :
        h \in Headers}

Files == {NoFile} \cup SchemaFiles \cup FilterFiles \cup GroupFiles \cup HeaderFiles
SourceFiles == {NoFile} \cup SchemaFiles

----------------------------------------------------------------------------
(* The state machine *)

NoFilter ==
    [set |-> FALSE, df |-> EmptyDataFrame, selected_gender |-> {}, age_range |-> <<0, 0>>,
     selected_bmi_category |-> {}, filtered_df |-> <<>>, varied |-> FALSE]

InitRest ==
    /\ cache = NoCache
    /\ reads = 0
    /\ changed = FALSE
    /\ df = EmptyDataFrame
    /\ selected_gender = {}
    /\ age_range = <<0, 0>>
    /\ selected_bmi_category = {}
    /\ filtered_df = <<>>
    /\ out = NoOutput
    /\ firstFilter = NoFilter

Init == file \in Files /\ InitRest

InitSource == file \in SourceFiles /\ InitRest

\* the run ends before the widgets: df is empty (line 32), load_data raised,
\* or a filter column is missing (KeyError at lines 39, 43, 47)
NoWidgets(o) ==
    /\ selected_gender' = {}
    /\ age_range' = <<0, 0>>
    /\ selected_bmi_category' = {}
    /\ filtered_df' = <<>>
    /\ out' = o
    /\ UNCHANGED firstFilter

\* One execution of the script.
Run ==
    LET r == cached_load_data(cache, file)
    IN /\ cache' = IF r.raised THEN cache ELSE [hit |-> TRUE, value |-> r]
       /\ reads' = IF cache.hit THEN reads ELSE reads + 1
       /\ changed' = FALSE
       /\ df' = r.df
       /\ UNCHANGED file
       /\ IF r.raised
          THEN NoWidgets([NoOutput EXCEPT !.status = "crashed",
                                          !.exception = "FileNotFoundError"])
          ELSE IF IsEmpty(r.df)
          THEN NoWidgets([NoOutput EXCEPT !.status = "empty_df", !.diag = r.diag])
          ELSE IF ~HasFilterColumns(r.df)
          THEN NoWidgets([NoOutput EXCEPT !.status = "crashed", !.exception = "KeyError",
                                          !.diag = r.diag])
          ELSE \E w \in WidgetValues(r.df, out.widgets,
                                       <<selected_gender, age_range, selected_bmi_category>>) :
                    LET sg == w[1]
                        ar == w[2]
                        sb == w[3]
                        fd == ApplyFilters(r.df, sg, ar, sb)
                    IN /\ selected_gender' = sg
                       /\ age_range' = ar
                       /\ selected_bmi_category' = sb
                       /\ filtered_df' = fd
                       /\ \E g \in Fig3Choices(r.df, fd) : out' = Render(r.df, fd, r.diag, g)
                       /\ firstFilter' =
                            IF firstFilter.set
                            THEN [firstFilter EXCEPT !.varied =
                                    \/ @
                                    \/ <<sg, ar, sb>> # <<firstFilter.selected_gender,
                                                          firstFilter.age_range,
                                                          firstFilter.selected_bmi_category>>]
                            ELSE [set |-> TRUE, df |-> r.df, selected_gender |-> sg,
                                  age_range |-> ar, selected_bmi_category |-> sb,
                                  filtered_df |-> fd, varied |-> FALSE]

\* Between two runs the file is created, replaced or removed.
ChangeSource ==
    /\ file' \in SourceFiles \ {file}
    /\ changed' = TRUE
    /\ UNCHANGED <<cache, reads, df, selected_gender, age_range,
                   selected_bmi_category, filtered_df, out, firstFilter>>

Next == Run

NextSource == Run \/ ChangeSource

\* a session over a source that does not change
Spec == Init /\ [][Next]_vars

\* a session during which the source changes
SpecSource == InitSource /\ [][NextSource]_vars

----------------------------------------------------------------------------
(* Properties *)

Ran == out.status # "not_run"

\* the row of df at position i satisfies the three predicates of the FilterSpec
Satisfies(i) ==
    /\ Cell(df, df.rows[i], gender) \in selected_gender
    /\ age_range[1] * AgeScale <= Cell(df, df.rows[i], age)
    /\ Cell(df, df.rows[i], age) <= age_range[2] * AgeScale
    /\ Cell(df, df.rows[i], bmi_category) \in selected_bmi_category

InView(i) == \E k \in DOMAIN filtered_df : filtered_df[k].index = i

\* C1: after a run that reached the filter step, a row of the table is in
\* filtered_df if and only if its gender is selected, its age lies in the
\* closed interval and its BMI category is selected.
C1_FilterPredicate ==
    out.widgets => \A i \in DOMAIN df.rows : InView(i) <=> Satisfies(i)

\* C1, the example: (Male, 30, Normal), (Female, 31, Overweight) under
\* ({Male}, [30, 31], {Normal, Overweight}) leaves exactly the first row.
C1_Witness ==
    /\ out.widgets
    /\ Len(df.rows) = 2
    /\ Cell(df, df.rows[1], gender) = "Male" /\ Cell(df, df.rows[2], gender) = "Female"
    /\ Cell(df, df.rows[1], age) = 30 * AgeScale /\ Cell(df, df.rows[2], age) = 31 * AgeScale
    /\ Cell(df, df.rows[1], bmi_category) = "Normal"
    /\ Cell(df, df.rows[2], bmi_category) = "Overweight"
    /\ selected_gender = {"Male"}
    /\ age_range = <<30, 31>>
    /\ selected_bmi_category = {"Normal", "Overweight"}
    /\ filtered_df = <<[index |-> 1, cells |-> df.rows[1]]>>

C3_EmptyView ==
    (out.widgets /\ filtered_df = <<>>)
        => /\ DiagNoMatch \in out.diag
           /\ out.exception = "none"
           /\ out.produced = {}
           /\ out.preview = <<>>
           /\ out.describe.count = 0
           /\ out.fig1 = NoHistogram
           /\ out.fig3 = <<>>

\* C3, the example: rows aged 30 and 31.5 (with AgeScale 2), interval [31, 31].
C3_Witness ==
    /\ out.widgets
    /\ Len(df.rows) = 2
    /\ selected_gender = Range(gender_options(df))
    /\ selected_bmi_category = Range(bmi_category_options(df))
    /\ Cell(df, df.rows[1], age) = 30 * AgeScale
    /\ Cell(df, df.rows[2], age) = 31 * AgeScale + 1
    /\ age_range = <<31, 31>>
    /\ filtered_df = <<>>
    /\ out.status = "no_match"

\* C4: in a run that gets to the derived outputs (the filter columns are
\* there and the filtered view is not empty) every chart whose columns are
\* present is produced, a chart whose columns are missing is skipped (fig3
\* and fig4 with their notice), and the run does not end in an exception.
C4_MissingColumnIsLocal ==
    (out.widgets /\ filtered_df # <<>>) =>
        /\ out.exception = "none"
        /\ "fig1" \in out.produced <=> Fig1Columns(df)
        /\ "fig2" \in out.produced <=> Fig2Columns(df)
        /\ "fig3" \in out.produced <=> Fig3Columns(df)
        /\ "fig4" \in out.produced <=> Fig4Columns(df)
        /\ DiagFig3Columns \in out.diag <=> ~Fig3Columns(df)
        /\ DiagFig4Columns \in out.diag <=> ~Fig4Columns(df)

\* C5: with the file absent, a run gets an empty table and the missing-file
\* error from load_data(), raises nothing, builds no widget and produces no
\* derived output.
C5_MissingFile ==
    (Ran /\ ~file.exists)
        => /\ df.rows = <<>>
           /\ DiagFileNotFound \in out.diag
           /\ out.exception = "none"
           /\ out.status = "empty_df"
           /\ ~out.widgets
           /\ out.produced = {}
           /\ filtered_df = <<>>

C5_Witness == Ran /\ ~file.exists /\ reads = 1 /\ out.diag = {DiagFileNotFound}

\* the positions in filtered_df of the rows whose occupation is k
RowsOfGroup(k) ==
    {i \in DOMAIN filtered_df : Cell(df, filtered_df[i].cells, occupation) = k}

RECURSIVE QualitySum(_)
\* the sum of quality_of_sleep over a set of positions of filtered_df
QualitySum(I) ==
    IF I = {} THEN 0
    ELSE LET i == CHOOSE x \in I : TRUE
         IN Cell(df, filtered_df[i].cells, quality_of_sleep) + QualitySum(I \ {i})

\* C6: the mean-by-group table has one entry per occupation of the filtered
\* view, each with the arithmetic mean of that occupation's quality_of_sleep,
\* in order of non-increasing mean.
C6_MeanByGroup ==
    "fig3" \in out.produced =>
        LET t == out.fig3
        IN /\ {t[i].occupation : i \in DOMAIN t}
                = {Cell(df, filtered_df[i].cells, occupation) : i \in DOMAIN filtered_df}
           /\ \A i, j \in DOMAIN t : i # j => t[i].occupation # t[j].occupation
           /\ \A i \in DOMAIN t :
                /\ t[i].quality_of_sleep.den > 0
                /\ t[i].quality_of_sleep.num * Cardinality(RowsOfGroup(t[i].occupation))
                     = t[i].quality_of_sleep.den * QualitySum(RowsOfGroup(t[i].occupation))
           /\ \A i, j \in DOMAIN t :
                i < j => t[i].quality_of_sleep.num * t[j].quality_of_sleep.den
                            >= t[j].quality_of_sleep.num * t[i].quality_of_sleep.den

\* C6: Nurse 4 and 9 (mean 13/2) comes before Doctor 4, although the table
\* has the Doctor row first.
C6_Witness ==
    /\ "fig3" \in out.produced
    /\ Len(filtered_df) = 3
    /\ Cell(df, filtered_df[1].cells, occupation) = "Doctor"
    /\ Len(out.fig3) = 2
    /\ out.fig3[1] = [occupation |-> "Nurse", quality_of_sleep |-> [num |-> 13, den |-> 2]]
    /\ out.fig3[2] = [occupation |-> "Doctor", quality_of_sleep |-> [num |-> 4, den |-> 1]]

\* C7: the loader reads the file at most once, and as long as the file has
\* not been replaced since the run, the table and the missing-file error the
\* run got are those an unmemoized load of the file returns.
C7_MemoizationIsTransparent ==
    Ran => /\ reads <= 1
           /\ ~changed => /\ df = load_data(file).df
                          /\ (DiagFileNotFound \in out.diag) <=> (load_data(file).diag # {})

\* C7, the part the code keeps: at most one read, and once a run has loaded
\* the table every later run gets the same table and the same error.
C7_ReadOnce ==
    [][Ran => /\ reads' <= 1
              /\ df' = df
              /\ (DiagFileNotFound \in out'.diag) <=> (DiagFileNotFound \in out.diag)]_vars

\* C8: filtered_df is a sub-collection of df: its rows are rows of df with the
\* same cells, each at most once and in table order, it is no longer than df,
\* and df is still the table the loader returned.
C8_SubCollection ==
    out.widgets =>
        /\ Len(filtered_df) <= Len(df.rows)
        /\ \A k \in DOMAIN filtered_df :
              /\ filtered_df[k].index \in DOMAIN df.rows
              /\ filtered_df[k].cells = df.rows[filtered_df[k].index]
        /\ \A k, l \in DOMAIN filtered_df :
              k < l => filtered_df[k].index < filtered_df[l].index
        /\ df = cache.value.df
        /\ df.rows = file.rows

C8_Witness ==
    /\ out.widgets
    /\ Len(df.rows) = 2
    /\ df.rows[1] # df.rows[2]
    /\ Len(filtered_df) = 2

C10_ColumnNormalization ==
    (Ran /\ file.exists) =>
        /\ Len(df.columns) = Len(file.header)
        /\ \A i \in DOMAIN file.header :
              /\ Len(df.columns[i]) = Len(file.header[i])
              /\ \A k \in DOMAIN file.header[i] :
                    LET c == file.header[i][k]
                        n == df.columns[i][k]
                    IN /\ n # " " /\ ~IsUpper(n)
                       /\ c = " " => n = "_"
                       /\ IsUpper(c) => \E u \in DOMAIN UpperCase :
                                            UpperCase[u] = c /\ LowerCase[u] = n
                       /\ (c # " " /\ ~IsUpper(c)) => n = c
        /\ df.rows = file.rows

\* C10, the example: "BMI Category" becomes bmi_category.
C10_Witness ==
    /\ Ran /\ file.exists
    /\ \E i \in DOMAIN file.header :
          file.header[i] = Raw_BMI_Category /\ df.columns[i] = bmi_category
    /\ Len(df.rows) > 0

====
